---------------------------- MODULE Spec2Model ----------------------------
(***************************************************************************)
(* Model of app.py: the tyre rolling-resistance fuel cost calculator.      *)
(*                                                                         *)
(* calculate_fuel_costs_by_grade is pure float arithmetic, so the model    *)
(* carries Python's float (IEEE 754 binary64, round to nearest, ties to    *)
(* even, with subnormals, infinities and NaN) bit for bit.  A mantissa has *)
(* 53 bits and TLC's integers have 32, so mantissas are natural numbers    *)
(* held as little-endian sequences of 15-bit limbs.                        *)
(***************************************************************************)
EXTENDS Integers, Sequences, FiniteSets, TLC

(***************************************************************************)
(* Natural numbers of any size: <<>> is 0, the last limb is never 0.       *)
(***************************************************************************)
LimbBits == 15

LimbBase == 2^LimbBits

RECURSIVE IntBitLen(_)
IntBitLen(n) == IF n = 0 THEN 0 ELSE 1 + IntBitLen(n \div 2)

RECURSIVE BigOfInt(_)
BigOfInt(n) == IF n = 0 THEN <<>> ELSE <<n % LimbBase>> \o BigOfInt(n \div LimbBase)

RECURSIVE BigTrim(_)
BigTrim(a) ==
    IF a = <<>> THEN <<>>
    ELSE IF a[Len(a)] = 0 THEN BigTrim(SubSeq(a, 1, Len(a) - 1))
    ELSE a

BigLimb(a, i) == IF i <= Len(a) THEN a[i] ELSE 0

BigBitLen(a) ==
    IF a = <<>> THEN 0 ELSE LimbBits * (Len(a) - 1) + IntBitLen(a[Len(a)])

BigBit(a, i) == (BigLimb(a, (i \div LimbBits) + 1) \div 2^(i % LimbBits)) % 2

BigIsOdd(a) == a # <<>> /\ a[1] % 2 = 1

\* -1, 0 or 1 as a < b, a = b or a > b, comparing limbs i, i-1, ..., 1.
RECURSIVE BigCmpFrom(_, _, _)
BigCmpFrom(a, b, i) ==
    IF i = 0 THEN 0
    ELSE IF a[i] < b[i] THEN -1
    ELSE IF a[i] > b[i] THEN 1
    ELSE BigCmpFrom(a, b, i - 1)

BigCmp(a, b) ==
    IF Len(a) < Len(b) THEN -1
    ELSE IF Len(a) > Len(b) THEN 1
    ELSE BigCmpFrom(a, b, Len(a))

RECURSIVE BigAddFrom(_, _, _, _)
BigAddFrom(a, b, i, carry) ==
    IF i > Len(a) /\ i > Len(b)
    THEN (IF carry = 0 THEN <<>> ELSE <<carry>>)
    ELSE LET s == BigLimb(a, i) + BigLimb(b, i) + carry
         IN  <<s % LimbBase>> \o BigAddFrom(a, b, i + 1, s \div LimbBase)

BigAdd(a, b) == BigAddFrom(a, b, 1, 0)

\* a - b for a >= b.
RECURSIVE BigSubFrom(_, _, _, _)
BigSubFrom(a, b, i, borrow) ==
    IF i > Len(a) THEN <<>>
    ELSE LET d == a[i] - BigLimb(b, i) - borrow
         IN  IF d < 0
             THEN <<d + LimbBase>> \o BigSubFrom(a, b, i + 1, 1)
             ELSE <<d>> \o BigSubFrom(a, b, i + 1, 0)

BigSub(a, b) == BigTrim(BigSubFrom(a, b, 1, 0))

\* a * k + carry for one limb k.
RECURSIVE BigMulLimbFrom(_, _, _, _)
BigMulLimbFrom(a, k, i, carry) ==
    IF i > Len(a)
    THEN (IF carry = 0 THEN <<>> ELSE <<carry>>)
    ELSE LET p == a[i] * k + carry
         IN  <<p % LimbBase>> \o BigMulLimbFrom(a, k, i + 1, p \div LimbBase)

BigMulLimb(a, k) == IF k = 0 THEN <<>> ELSE BigMulLimbFrom(a, k, 1, 0)

BigShlLimbs(a, n) == IF a = <<>> THEN <<>> ELSE [i \in 1..n |-> 0] \o a

RECURSIVE BigMulFrom(_, _, _)
BigMulFrom(a, b, j) ==
    IF j > Len(b) THEN <<>>
    ELSE BigAdd(BigShlLimbs(BigMulLimb(a, b[j]), j - 1), BigMulFrom(a, b, j + 1))

BigMul(a, b) == IF a = <<>> \/ b = <<>> THEN <<>> ELSE BigMulFrom(a, b, 1)

\* a * 2^n
BigShl(a, n) == BigShlLimbs(BigMulLimb(a, 2^(n % LimbBits)), n \div LimbBits)

\* floor(a / 2^n)
BigShr(a, n) ==
    LET drop == n \div LimbBits
        r    == n % LimbBits
        len  == Len(a) - drop
    IN  IF len <= 0 THEN <<>>
        ELSE BigTrim([i \in 1..len |->
                 (a[i + drop] \div 2^r)
                 + (BigLimb(a, i + drop + 1) % 2^r) * 2^(LimbBits - r)])

\* a mod 2^n
BigLowBits(a, n) ==
    LET keep == n \div LimbBits
        r    == n % LimbBits
    IN  IF Len(a) <= keep THEN a
        ELSE BigTrim(SubSeq(a, 1, keep) \o <<a[keep + 1] % 2^r>>)

\* 2a + bit
BigDouble(a, bit) == BigAddFrom(a, a, 1, bit)

\* Long division, one bit of a at a time from bit i down to bit lo: qr is the
\* quotient and the remainder of the bits of a above i.
RECURSIVE BigDivBits(_, _, _, _, _)
BigDivBits(a, b, i, lo, qr) ==
    IF i < lo THEN qr
    ELSE LET r2 == BigDouble(qr[2], BigBit(a, i))
         IN  IF BigCmp(r2, b) >= 0
             THEN BigDivBits(a, b, i - 1, lo, <<BigDouble(qr[1], 1), BigSub(r2, b)>>)
             ELSE BigDivBits(a, b, i - 1, lo, <<BigDouble(qr[1], 0), r2>>)

\* The same, a limb of bits at a time.
RECURSIVE BigDivLimbs(_, _, _, _)
BigDivLimbs(a, b, i, qr) ==
    IF i < 0 THEN qr
    ELSE LET lo == IF i >= LimbBits THEN i - LimbBits + 1 ELSE 0
         IN  BigDivLimbs(a, b, lo - 1, BigDivBits(a, b, i, lo, qr))

\* <<floor(a / b), a mod b>> for b # 0.
BigDivMod(a, b) ==
    LET n == BigBitLen(a)
        k == BigBitLen(b)
    IN  IF n < k THEN <<(<<>>), a>>
        ELSE BigDivLimbs(a, b, n - k, <<(<<>>), BigShr(a, n - k + 1)>>)

(***************************************************************************)
(* Python's float: IEEE 754 binary64.  A finite value is                   *)
(* (-1)^sign * man * 2^exp with man < 2^53 and MinExp <= exp <= MaxExp,    *)
(* normal (man >= 2^52) or subnormal or zero (exp = MinExp).               *)
(***************************************************************************)
Precision == 53

MinExp == -1074

MaxExp == 971

Fin(s, m, e) == [cls |-> "fin", sign |-> s, man |-> m, exp |-> e]

Zero(s) == Fin(s, <<>>, MinExp)

Inf(s) == [cls |-> "inf", sign |-> s, man |-> <<>>, exp |-> 0]

NaN == [cls |-> "nan", sign |-> 0, man |-> <<>>, exp |-> 0]

IsNaN(x) == x.cls = "nan"

IsInf(x) == x.cls = "inf"

IsFinite(x) == x.cls = "fin"

IsZero(x) == x.cls = "fin" /\ x.man = <<>>

\* Finite, non-zero and not subnormal.
IsNormal(x) == x.cls = "fin" /\ BigBitLen(x.man) = Precision

\* q or q + 1: q is a value with its low bits cut off, c compares the bits cut
\* off with one half (-1 below, 0 equal, 1 above).  Ties go to the even q.
BigRoundInc(q, c) ==
    IF c > 0 \/ (c = 0 /\ BigIsOdd(q)) THEN BigAdd(q, <<1>>) ELSE q

\* M / 2^shift rounded to the nearest integer, ties to even; shift > 0.
BigRoundShr(M, shift) ==
    BigRoundInc(BigShr(M, shift),
                BigCmp(BigLowBits(M, shift), BigShl(<<1>>, shift - 1)))

\* (-1)^s * m * 2^e with m of at most Precision bits: an infinity above MaxExp.
FPackChecked(s, m, e) == IF e > MaxExp THEN Inf(s) ELSE Fin(s, m, e)

\* (-1)^s * m * 2^e with m of at most Precision + 1 bits (Precision + 1 only
\* as 2^Precision, when the rounding carried).
FPack(s, m, e) ==
    IF m = <<>> THEN Zero(s)
    ELSE IF BigBitLen(m) > Precision THEN FPackChecked(s, BigShr(m, 1), e + 1)
    ELSE FPackChecked(s, m, e)

\* The float nearest to (-1)^s * M * 2^E with its last bit worth 2^e.
FRoundAt(s, M, E, e) ==
    IF e <= E THEN FPackChecked(s, BigShl(M, E - e), e)
    ELSE FPack(s, BigRoundShr(M, e - E), e)

\* The exponent of the last bit of a float whose first bit is worth 2^(e +
\* Precision - 1): no less than MinExp (a subnormal).
LastBitExp(e) == IF e > MinExp THEN e ELSE MinExp

\* The float nearest to (-1)^s * M * 2^E, ties to even; overflow gives an
\* infinity, underflow a subnormal or a zero.
FRound(s, M, E) ==
    IF M = <<>> THEN Zero(s)
    ELSE FRoundAt(s, M, E, LastBitExp(E + BigBitLen(M) - Precision))

\* An integer literal or an integer-valued float.
FromInt(n) == FRound(IF n < 0 THEN 1 ELSE 0, BigOfInt(IF n < 0 THEN -n ELSE n), 0)

\* m * 2^e for integers m and e (a float given by its bits).
FromBits(m, e) == FRound(IF m < 0 THEN 1 ELSE 0, BigOfInt(IF m < 0 THEN -m ELSE m), e)

FNeg(x) == IF IsNaN(x) THEN x ELSE [x EXCEPT !.sign = 1 - x.sign]

FAbs(x) == IF IsNaN(x) THEN x ELSE [x EXCEPT !.sign = 0]

SignXor(x, y) == (x.sign + y.sign) % 2

\* x * y
FMul(x, y) ==
    IF IsNaN(x) \/ IsNaN(y) THEN NaN
    ELSE IF IsInf(x) \/ IsInf(y)
    THEN (IF IsZero(x) \/ IsZero(y) THEN NaN ELSE Inf(SignXor(x, y)))
    ELSE FRound(SignXor(x, y), BigMul(x.man, y.man), x.exp + y.exp)

\* The float nearest to (-1)^s * (qr[1] + f) * 2^E, where qr is a quotient of
\* at least Precision + 2 bits and its remainder, and 0 <= f < 1 is zero only
\* when the remainder is: one more bit below the quotient tells which.
FRoundQuotient(s, qr, E) ==
    FRound(s, BigDouble(qr[1], IF qr[2] = <<>> THEN 0 ELSE 1), E - 1)

\* mx * 2^ex / (my * 2^ey) for mx and my not zero: the quotient of mx * 2^n
\* by my has Precision + 4 or Precision + 5 bits.
FDivFinite(s, mx, ex, my, ey, n) ==
    FRoundQuotient(s, BigDivMod(BigShl(mx, n), my), ex - ey - n)

\* x / y for y # 0: Python raises ZeroDivisionError before dividing by zero.
FDiv(x, y) ==
    IF IsNaN(x) \/ IsNaN(y) THEN NaN
    ELSE IF IsInf(x) THEN (IF IsInf(y) THEN NaN ELSE Inf(SignXor(x, y)))
    ELSE IF IsInf(y) \/ IsZero(x) THEN Zero(SignXor(x, y))
    ELSE FDivFinite(SignXor(x, y), x.man, x.exp, y.man, y.exp,
                    Precision + 4 + BigBitLen(y.man) - BigBitLen(x.man))

\* (-1)^hs * mh * 2^e + (-1)^ls * ml * 2^e rounded; c compares mh with ml.  An
\* exact difference of zero is +0.0.
FAddAligned(hs, mh, ls, ml, e, c) ==
    FRound(IF hs = ls \/ c > 0 THEN hs ELSE IF c = 0 THEN 0 ELSE ls,
           IF hs = ls THEN BigAdd(mh, ml)
           ELSE IF c >= 0 THEN BigSub(mh, ml)
           ELSE BigSub(ml, mh),
           e)

\* hi + lo of finite non-zero hi and lo with hi.exp >= lo.exp, exactly and then
\* rounded once.  When lo lies wholly below the bits that decide the rounding
\* (far), one unit three bits below hi's last bit stands for it.
FAddOrdered(hi, lo, far) ==
    FAddAligned(hi.sign, BigShl(hi.man, IF far THEN 3 ELSE hi.exp - lo.exp),
                lo.sign, IF far THEN <<1>> ELSE lo.man,
                IF far THEN hi.exp - 3 ELSE lo.exp,
                BigCmp(BigShl(hi.man, IF far THEN 3 ELSE hi.exp - lo.exp),
                       IF far THEN <<1>> ELSE lo.man))

\* x + y of finite x and y.
FAddFinite(x, y) ==
    IF IsZero(x) /\ IsZero(y) THEN (IF x.sign = y.sign THEN x ELSE Zero(0))
    ELSE IF IsZero(x) THEN y
    ELSE IF IsZero(y) THEN x
    ELSE IF x.exp >= y.exp THEN FAddOrdered(x, y, x.exp - y.exp > Precision + 3)
    ELSE FAddOrdered(y, x, y.exp - x.exp > Precision + 3)

\* x + y
FAdd(x, y) ==
    IF IsNaN(x) \/ IsNaN(y) THEN NaN
    ELSE IF IsInf(x) THEN (IF IsInf(y) /\ x.sign # y.sign THEN NaN ELSE x)
    ELSE IF IsInf(y) THEN y
    ELSE FAddFinite(x, y)

\* x - y
FSub(x, y) == FAdd(x, FNeg(y))

\* x == y: NaN equals nothing, 0.0 equals -0.0.
FEq(x, y) ==
    /\ ~IsNaN(x)
    /\ ~IsNaN(y)
    /\ \/ x = y
       \/ IsZero(x) /\ IsZero(y)

\* |x| < |y| for x and y finite or infinite.
MagLt(x, y) ==
    IF IsInf(x) THEN FALSE
    ELSE IF IsInf(y) THEN TRUE
    ELSE IF IsZero(y) THEN FALSE
    ELSE IF IsZero(x) THEN TRUE
    ELSE LET lx == x.exp + BigBitLen(x.man)
             ly == y.exp + BigBitLen(y.man)
         IN  IF lx # ly THEN lx < ly
             ELSE IF x.exp >= y.exp
                  THEN BigCmp(BigShl(x.man, x.exp - y.exp), y.man) < 0
                  ELSE BigCmp(x.man, BigShl(y.man, y.exp - x.exp)) < 0

\* x < y: false when either is NaN.
FLt(x, y) ==
    /\ ~IsNaN(x)
    /\ ~IsNaN(y)
    /\ ~(IsZero(x) /\ IsZero(y))
    /\ IF x.sign # y.sign THEN x.sign = 1
       ELSE IF x.sign = 0 THEN MagLt(x, y)
       ELSE MagLt(y, x)

\* x <= y
FLe(x, y) == FLt(x, y) \/ FEq(x, y)

\* A decimal literal n / d of the source (d a power of ten): the float nearest
\* to it, as Python's parser gives.
Lit(n, d) == FDiv(FromInt(n), FromInt(d))

(***************************************************************************)
(* Python's dict: the <<key, value>> pairs in insertion order.  Setting a  *)
(* key that is present keeps its place.                                    *)
(***************************************************************************)
DictKeys(d) == [i \in 1..Len(d) |-> d[i][1]]

DictHas(d, k) == \E i \in 1..Len(d) : d[i][1] = k

DictGet(d, k) == d[CHOOSE i \in 1..Len(d) : d[i][1] = k][2]

DictSet(d, k, v) ==
    IF DictHas(d, k)
    THEN [i \in 1..Len(d) |-> IF d[i][1] = k THEN <<k, v>> ELSE d[i]]
    ELSE Append(d, <<k, v>>)

(***************************************************************************)
(* calculate_fuel_costs_by_grade                                           *)
(***************************************************************************)
mpg_to_l_per_100km == Lit(28248, 100)

miles_to_km == Lit(160934, 100000)

tyre_grades ==
    << <<"A", Lit(65, 10)>>, <<"B", Lit(72, 10)>>, <<"C", Lit(84, 10)>>,
       <<"D", Lit(98, 10)>>, <<"E", Lit(110, 10)>> >>

\* The rate written as a percentage, 1.5, where the fraction is meant.
FuelSavingsRateAsPercent == Lit(15, 10)

fuel_savings_rate == Lit(15, 1000)

\* The baseline entry both result dicts start with: the literal 0.00.
BaselineEntry == <<"A", Zero(0)>>

\* mpg_to_l_per_100km / fuel_consumption_mpg, for fuel_consumption_mpg not zero.
base_fuel_consumption_l_per_100km(fuel_consumption_mpg) ==
    FDiv(mpg_to_l_per_100km, fuel_consumption_mpg)

\* fuel_price = fuel_price/100
PriceInPounds(fuel_price) == FDiv(fuel_price, FromInt(100))

\* annual_mileage * miles_to_km
Kilometres(annual_mileage) == FMul(annual_mileage, miles_to_km)

\* consumption / 100: litres per kilometre.
PerKm(consumption_l_per_100km) == FDiv(consumption_l_per_100km, FromInt(100))

\* The litres per kilometre, not multiplied by the kilometres.
FuelPerKmOnly(consumption_l_per_100km, km) == PerKm(consumption_l_per_100km)

\* (consumption / 100) * (annual_mileage * miles_to_km), km being the product.
FuelPerYear(consumption_l_per_100km, km) == FMul(PerKm(consumption_l_per_100km), km)

base_fuel_per_year_l(fuel_consumption_mpg, annual_mileage) ==
    FuelPerYear(base_fuel_consumption_l_per_100km(fuel_consumption_mpg),
                Kilometres(annual_mileage))

base_fuel_cost(fuel_consumption_mpg, annual_mileage, fuel_price) ==
    FMul(base_fuel_per_year_l(fuel_consumption_mpg, annual_mileage),
         PriceInPounds(fuel_price))

\* What the loop reads of the locals set before it.
Frame(fuel_consumption_mpg, annual_mileage, fuel_price) ==
    [base_fuel_consumption_l_per_100km |->
         base_fuel_consumption_l_per_100km(fuel_consumption_mpg),
     km             |-> Kilometres(annual_mileage),
     fuel_price     |-> PriceInPounds(fuel_price),
     base_fuel_cost |-> base_fuel_cost(fuel_consumption_mpg, annual_mileage, fuel_price)]

rrc_increase_percentage(rrc, rrc_A) == FMul(FDiv(FSub(rrc, rrc_A), rrc_A), FromInt(100))

fuel_increase_percentage(rrc) ==
    FMul(fuel_savings_rate,
         FDiv(rrc_increase_percentage(rrc, DictGet(tyre_grades, "A")), FromInt(10)))

\* The increase alone, the 1 forgotten.
IncreaseOnly(increase) == increase

\* What the base consumption is multiplied by: 1 + fuel_increase_percentage.
ConsumptionFactor(increase) == FAdd(FromInt(1), increase)

new_fuel_consumption_l_per_100km(f, rrc) ==
    FMul(f.base_fuel_consumption_l_per_100km,
         ConsumptionFactor(fuel_increase_percentage(rrc)))

new_fuel_per_year_l(f, rrc) == FuelPerYear(new_fuel_consumption_l_per_100km(f, rrc), f.km)

\* The litres per year, not multiplied by the price.
NewFuelUnpriced(f, rrc) == new_fuel_per_year_l(f, rrc)

new_fuel_cost(f, rrc) == FMul(new_fuel_per_year_l(f, rrc), f.fuel_price)

\* The difference taken the wrong way round.
CostDifferenceReversed(new_cost, base_cost) == FSub(base_cost, new_cost)

\* new_fuel_cost - base_fuel_cost
CostDifference(new_cost, base_cost) == FSub(new_cost, base_cost)

cost_difference(f, rrc) == CostDifference(new_fuel_cost(f, rrc), f.base_fuel_cost)

\* (cost_difference / base_fuel_cost) * 100, for base_fuel_cost not zero.
PercentageIncrease(difference, base_cost) ==
    FMul(FDiv(difference, base_cost), FromInt(100))

Raised(error) == [outcome |-> error, cost_differences |-> <<>>, percentage_increase |-> <<>>]

Returned(cd, pi) == [outcome |-> "returned", cost_differences |-> cd, percentage_increase |-> pi]

\* A loop that passes over no grade.
NeverSkipped(grade) == FALSE

\* Whether the loop passes over a grade: if grade == "A": continue.
Skipped(grade) == grade = "A"

\* The two assignments that end a pass of the loop for grade, whose cost
\* difference is d.  Dividing by a base cost of zero raises.
StoreGrade(cd, pi, grade, d, base_cost) ==
    IF IsZero(base_cost) THEN Raised("ZeroDivisionError")
    ELSE Returned(DictSet(cd, grade, d),
                  DictSet(pi, grade, PercentageIncrease(d, base_cost)))

\* The loop over the items of tyre_grades from the i-th on; r is the function's
\* state so far: the two dicts, or the exception that ended it.
RECURSIVE GradeLoop(_, _, _)
GradeLoop(f, i, r) ==
    IF i > Len(tyre_grades) \/ r.outcome # "returned" THEN r
    ELSE IF Skipped(tyre_grades[i][1]) THEN GradeLoop(f, i + 1, r)
    ELSE GradeLoop(f, i + 1,
                   StoreGrade(r.cost_differences, r.percentage_increase,
                              tyre_grades[i][1], cost_difference(f, tyre_grades[i][2]),
                              f.base_fuel_cost))

calculate_fuel_costs_by_grade(fuel_consumption_mpg, annual_mileage, fuel_price) ==
    IF IsZero(fuel_consumption_mpg) THEN Raised("ZeroDivisionError")
    ELSE GradeLoop(Frame(fuel_consumption_mpg, annual_mileage, fuel_price), 1,
                   Returned(<<BaselineEntry>>, <<BaselineEntry>>))

(***************************************************************************)
(* The page: three number inputs, a button, and one line per grade.        *)
(***************************************************************************)
\* f"{x:.2f}": x in hundredths, rounded half to even from its exact value.
Format2f(x) ==
    [text |-> IF IsFinite(x) THEN "number" ELSE x.cls,
     neg  |-> x.sign = 1,
     hundredths |-> IF ~IsFinite(x) THEN <<>>
                    ELSE IF x.exp >= 0 THEN BigShl(BigMulLimb(x.man, 100), x.exp)
                    ELSE BigRoundShr(BigMulLimb(x.man, 100), -x.exp)]

\* st.write(f"**{grade}-rated:** £{cost_differences[grade]:.2f} (+{percentage_increase[grade]:.2f}%)")
Line(grade, cd, pi) ==
    [grade |-> grade,
     pounds |-> Format2f(DictGet(cd, grade)),
     percent |-> Format2f(DictGet(pi, grade))]

\* The lines in the reverse of the dict's order.
RenderReversed(cd, pi) == [i \in 1..Len(cd) |-> Line(cd[Len(cd) + 1 - i][1], cd, pi)]

\* for grade in cost_differences: one line per key, in the dict's order.
Render(cd, pi) == [i \in 1..Len(cd) |-> Line(cd[i][1], cd, pi)]

\* The values of the three inputs as the page first shows them.
DefaultInputs == [mpg |-> FromInt(40), mileage |-> FromInt(12000), price |-> Lit(160, 100)]

\* min_value of the three inputs.
MinInputs == [mpg |-> FromInt(1), mileage |-> FromInt(1), price |-> Lit(1, 10)]

(***************************************************************************)
(* The arguments the model calls the function with.                        *)
(***************************************************************************)
\* The largest factor an argument is scaled by.
MaxScale == 3

Scales == {FromInt(k) : k \in 2..MaxScale}

\* The largest finite float.
MaxFloat == Fin(0, BigSub(BigShl(<<1>>, Precision), <<1>>), MaxExp)

Triple(a, b, c) == [mpg |-> a, mileage |-> b, price |-> c]

\* Everyday arguments: the defaults, the minimums, a price in pence.
OrdinaryTriples ==
    { DefaultInputs, MinInputs, Triple(Lit(523, 10), FromInt(7500), Lit(1459, 10)) }

\* Arguments at the edges of the float range: a fuel economy so large that the
\* costs are subnormal, a mileage so large that the kilometres overflow, inputs
\* so small that the baseline cost underflows to zero.
EdgeTriples ==
    { Triple(MaxFloat, FromInt(1), Lit(1, 10)),
      Triple(FromInt(40), FromBits(7, 1021), Lit(160, 100)),
      Triple(FromInt(1), FromBits(1, -600), FromBits(1, -600)) }

\* A fuel economy so large that the costs are subnormal, and stay so when
\* doubled or tripled.
SubnormalTriple == Triple(FromBits(1, 1020), FromInt(1), Lit(1, 10))

ScaledPrice(t, k) == [t EXCEPT !.price = FMul(k, t.price)]

ScaledMileage(t, k) == [t EXCEPT !.mileage = FMul(k, t.mileage)]

ValidTriples ==
    LET base == OrdinaryTriples \cup {SubnormalTriple}
    IN  base \cup EdgeTriples
             \cup {ScaledPrice(t, k) : t \in base, k \in Scales}
             \cup {ScaledMileage(t, k) : t \in base, k \in Scales}

\* Arguments with a zero or a negative among them.
InvalidTriples ==
    LET d == DefaultInputs
    IN  { [d EXCEPT !.mpg = Zero(0)], [d EXCEPT !.mileage = Zero(0)],
          [d EXCEPT !.price = Zero(0)], [d EXCEPT !.mpg = FNeg(d.mpg)],
          [d EXCEPT !.mileage = FNeg(d.mileage)], [d EXCEPT !.price = FNeg(d.price)],
          [d EXCEPT !.mileage = Zero(1)], Triple(Zero(0), Zero(0), Zero(0)) }

\* What the user tries to set each input of the page to.
FormValues ==
    [mpg     |-> {Zero(0), MinInputs.mpg, DefaultInputs.mpg, MaxFloat},
     mileage |-> {MinInputs.mileage, DefaultInputs.mileage, FromBits(7, 1021)},
     price   |-> {MinInputs.price, DefaultInputs.price}]

\* An input without a minimum: it takes every value tried.
NumberInputNoMinimum(values, min_value) == values

\* st.number_input(..., min_value=m): the values the input takes, of those tried.
NumberInput(values, min_value) == {v \in values : FLe(min_value, v)}

FormTriples ==
    { Triple(a, b, c) : a \in NumberInput(FormValues.mpg, MinInputs.mpg),
                        b \in NumberInput(FormValues.mileage, MinInputs.mileage),
                        c \in NumberInput(FormValues.price, MinInputs.price) }

ArgTriples == ValidTriples \cup InvalidTriples \cup FormTriples

\* The function's result for each triple of arguments, computed once.
Results ==
    [t \in ArgTriples |-> calculate_fuel_costs_by_grade(t.mpg, t.mileage, t.price)]

(***************************************************************************)
(* State                                                                   *)
(***************************************************************************)
VARIABLES
    widget,     \* the values of the three number inputs
    pressed,    \* st.button's value in the latest run of the script
    called,     \* whether the latest run of the script called the function
    rendered,   \* the lines the latest run of the script wrote
    call,       \* the latest call of the function: its arguments and result
    prev        \* the call before it

vars == <<widget, pressed, called, rendered, call, prev>>

NoCall == [args |-> <<>>, result |-> Raised("none")]

Call(t) == [args |-> t, result |-> Results[t]]

Init ==
    /\ widget = DefaultInputs
    /\ pressed = FALSE
    /\ called = FALSE
    /\ rendered = <<>>
    /\ call = NoCall
    /\ prev = NoCall

\* Any caller calls the function with any arguments.
Estimate(t) ==
    /\ call' = Call(t)
    /\ prev' = call
    /\ UNCHANGED <<widget, pressed, called, rendered>>

\* Whether a run of the script in which the button has the value b calls the
\* function: if st.button("Calculate Fuel Costs").
ButtonCalls(b) == b

\* One run of the script with the inputs holding w and the button's value b.
ScriptRun(w, b) ==
    /\ widget' = w
    /\ pressed' = b
    /\ called' = ButtonCalls(b)
    /\ IF ButtonCalls(b)
       THEN /\ call' = Call(w)
            /\ prev' = call
            /\ rendered' = IF Results[w].outcome = "returned"
                           THEN Render(Results[w].cost_differences,
                                       Results[w].percentage_increase)
                           ELSE <<>>
       ELSE /\ rendered' = <<>>
            /\ UNCHANGED <<call, prev>>

\* The user changes one input: the script runs again, the button not pressed.
ChangeInput(field, v) ==
    /\ v # widget[field]
    /\ ScriptRun([widget EXCEPT ![field] = v], FALSE)

\* The user presses the button: the script runs again, the button pressed.
PressButton == ScriptRun(widget, TRUE)

Next ==
    \E t \in ArgTriples : Estimate(t)

Spec == Init /\ [][Next]_vars

FormNext ==
    \/ \E field \in {"mpg", "mileage", "price"} :
          \E v \in NumberInput(FormValues[field], MinInputs[field]) : ChangeInput(field, v)
    \/ PressButton

FormSpec == Init /\ [][FormNext]_vars

(***************************************************************************)
(* What the claims speak of                                                *)
(***************************************************************************)
\* The grades in the order the specification lists them.
Grades == <<"A", "B", "C", "D", "E">>

\* A strictly positive number.
Positive(x) == IsFinite(x) /\ ~IsZero(x) /\ x.sign = 0

\* Valid inputs: all three strictly positive.
ValidArgs(t) == Positive(t.mpg) /\ Positive(t.mileage) /\ Positive(t.price)

\* c is a call that returned its two mappings.
ReturnedCall(c) == c # NoCall /\ c.result.outcome = "returned"

\* c is a call with valid inputs that returned.
ValidCall(c) == ReturnedCall(c) /\ ValidArgs(c.args)

absoluteDelta(c, g) == DictGet(c.result.cost_differences, g)

percentDelta(c, g) == DictGet(c.result.percentage_increase, g)

\* The locals of each call before the loop, computed once.
Frames == [t \in ArgTriples |-> Frame(t.mpg, t.mileage, t.price)]

\* The baseline cost of a call is a finite number: it did not overflow.
FiniteBaseline(c) == IsFinite(Frames[c.args].base_fuel_cost)

(***************************************************************************)
(* C1                                                                      *)
(***************************************************************************)
\* C1: a call with a zero or negative input yields InvalidInput: it returns
\* no mappings and fails in no other way.  The code has no such guard: a zero
\* raises ZeroDivisionError and a negative input returns mappings.
C1_NonPositiveRejected ==
    (call # NoCall /\ ~ValidArgs(call.args)) => call.result.outcome = "InvalidInput"

(***************************************************************************)
(* C2                                                                      *)
(***************************************************************************)
\* C2: for valid inputs the returned absoluteDelta["A"] and percentDelta["A"]
\* are both exactly 0.00, the constants the mappings start with.
C2_BaselineZero ==
    ValidCall(call) =>
        /\ absoluteDelta(call, "A") = Zero(0)
        /\ percentDelta(call, "A") = Zero(0)

\* A call whose baseline cost overflowed: computed by the loop's formula the
\* baseline entries would be inf - inf.
C2_Witness ==
    /\ ValidCall(call)
    /\ IsInf(Frames[call.args].base_fuel_cost)
    /\ absoluteDelta(call, "A") = Zero(0)

(***************************************************************************)
(* C3                                                                      *)
(***************************************************************************)
\* d's values do not decrease from one grade to the next, A to E.
Monotone(d) ==
    \A i \in 1..(Len(Grades) - 1) : FLe(DictGet(d, Grades[i]), DictGet(d, Grades[i + 1]))

\* C3 as stated: for all valid inputs both mappings are non-decreasing in
\* grade order.  A mileage whose cost overflows gives nan for B to E.
C3_MonotoneAlways ==
    ValidCall(call) =>
        /\ Monotone(call.result.cost_differences)
        /\ Monotone(call.result.percentage_increase)

\* C3, amended: for all valid inputs whose baseline cost does not overflow,
\* absoluteDelta and percentDelta are non-decreasing in grade order A to E.
C3_Monotone ==
    (ValidCall(call) /\ FiniteBaseline(call)) =>
        /\ Monotone(call.result.cost_differences)
        /\ Monotone(call.result.percentage_increase)

C3_Witness ==
    /\ ValidCall(call)
    /\ FiniteBaseline(call)
    /\ call.args # DefaultInputs
    /\ FLt(absoluteDelta(call, "B"), absoluteDelta(call, "C"))
    /\ FLt(percentDelta(call, "D"), percentDelta(call, "E"))

(***************************************************************************)
(* C4                                                                      *)
(***************************************************************************)
\* lo <= x <= hi
Within(x, lo, hi) == FLe(lo, x) /\ FLe(x, hi)

\* C4 as stated: for the inputs 40.0, 12000, 1.60 percentDelta["E"] is
\* approximately 0.675 (here: between 0.67 and 0.68).
C4_DefaultPercentE_0675 ==
    (ReturnedCall(call) /\ call.args = DefaultInputs) =>
        Within(percentDelta(call, "E"), Lit(67, 100), Lit(68, 100))

\* C4, amended: for the inputs 40.0, 12000, 1.60 percentDelta["E"] is
\* approximately 10.3846, one hundred times 0.015 x ((11.0-6.5)/6.5 x 100)/10.
C4_DefaultPercentE ==
    (call # NoCall /\ call.args = DefaultInputs) =>
        /\ call.result.outcome = "returned"
        /\ Within(percentDelta(call, "E"), Lit(103846, 10000), Lit(103847, 10000))

C4_Witness ==
    /\ ReturnedCall(call)
    /\ call.args = DefaultInputs
    /\ FLt(FromInt(10), percentDelta(call, "E"))

(***************************************************************************)
(* C5, C6                                                                  *)
(***************************************************************************)
\* What the function computes from the arguments before the loop.
FrameIntermediates(f) ==
    { f.base_fuel_consumption_l_per_100km, f.fuel_price, f.km,
      PerKm(f.base_fuel_consumption_l_per_100km),
      FuelPerYear(f.base_fuel_consumption_l_per_100km, f.km),
      f.base_fuel_cost }

\* What one pass of the loop computes from them, for a grade of resistance rrc.
GradeIntermediates(f, rrc) ==
    LET consumption == new_fuel_consumption_l_per_100km(f, rrc)
        per_year    == FuelPerYear(consumption, f.km)
        cost        == FMul(per_year, f.fuel_price)
        difference  == CostDifference(cost, f.base_fuel_cost)
    IN  { consumption, PerKm(consumption), per_year, cost, difference,
          FDiv(difference, f.base_fuel_cost),
          PercentageIncrease(difference, f.base_fuel_cost) }

\* Every value a call computes from its arguments is a normal float: nothing
\* overflowed, nothing fell into the subnormal range or to zero.
InRange ==
    [t \in ArgTriples |->
        /\ Results[t].outcome = "returned"
        /\ \A x \in FrameIntermediates(Frames[t]) : IsNormal(x)
        /\ \A i \in 1..Len(tyre_grades) :
              ~Skipped(tyre_grades[i][1]) =>
                  \A x \in GradeIntermediates(Frames[t], tyre_grades[i][2]) : IsNormal(x)]

IsPowerOfTwo(k) == IsNormal(k) /\ k.sign = 0 /\ k.man = BigShl(<<1>>, Precision - 1)

\* The relative rounding error allowed between two results: 2^-40.
Tolerance == FromBits(1, -40)

\* x and y differ by no more than Tolerance, relative to y.
Close(x, y) == FLe(FAbs(FSub(x, y)), FMul(Tolerance, FAbs(y)))

NonBaseline == {"B", "C", "D", "E"}

\* The latest call has the arguments of the call before it, the price
\* multiplied by k; both returned.
PriceScaled(k) ==
    /\ ValidCall(prev)
    /\ ValidCall(call)
    /\ call.args = ScaledPrice(prev.args, k)

MileageScaled(k) ==
    /\ ValidCall(prev)
    /\ ValidCall(call)
    /\ call.args = ScaledMileage(prev.args, k)

BothInRange == InRange[prev.args] /\ InRange[call.args]

\* C5 as stated: multiplying fuelPrice by any positive k multiplies every
\* non-baseline absoluteDelta by exactly k and leaves every percentDelta
\* unchanged.  With k = 3 the products are rounded differently.
C5_PriceScalingExact ==
    \A k \in Scales :
        PriceScaled(k) =>
            /\ \A g \in NonBaseline : absoluteDelta(call, g) = FMul(k, absoluteDelta(prev, g))
            /\ \A g \in NonBaseline \cup {"A"} : percentDelta(call, g) = percentDelta(prev, g)

\* C5, amended: when no intermediate value of either call overflows or
\* underflows, multiplying fuelPrice by k multiplies every non-baseline
\* absoluteDelta by k and leaves every percentDelta unchanged, up to a relative
\* rounding error of 2^-40, and exactly when k is a power of two.
C5_PriceScaling ==
    \A k \in Scales :
        (PriceScaled(k) /\ BothInRange) =>
            /\ \A g \in NonBaseline :
                  /\ Close(absoluteDelta(call, g), FMul(k, absoluteDelta(prev, g)))
                  /\ IsPowerOfTwo(k) =>
                        absoluteDelta(call, g) = FMul(k, absoluteDelta(prev, g))
            /\ \A g \in NonBaseline \cup {"A"} :
                  /\ Close(percentDelta(call, g), percentDelta(prev, g))
                  /\ IsPowerOfTwo(k) => percentDelta(call, g) = percentDelta(prev, g)

\* The price of a call away from the defaults was doubled.
C5_Witness ==
    \E k \in Scales :
        /\ IsPowerOfTwo(k)
        /\ PriceScaled(k)
        /\ BothInRange
        /\ prev.args # DefaultInputs
        /\ absoluteDelta(call, "E") = FMul(k, absoluteDelta(prev, "E"))
        /\ FLt(absoluteDelta(prev, "E"), absoluteDelta(call, "E"))

\* C6 as stated: multiplying annualDistance by any positive k multiplies
\* every absoluteDelta by k and leaves every percentDelta unchanged.
C6_MileageScalingExact ==
    \A k \in Scales :
        MileageScaled(k) =>
            \A g \in NonBaseline \cup {"A"} :
                /\ absoluteDelta(call, g) = FMul(k, absoluteDelta(prev, g))
                /\ percentDelta(call, g) = percentDelta(prev, g)

\* C6, amended: when no intermediate value of either call overflows or
\* underflows, multiplying annualDistance by k multiplies every absoluteDelta
\* by k and leaves every percentDelta unchanged, up to a relative rounding
\* error of 2^-40, and exactly when k is a power of two.
C6_MileageScaling ==
    \A k \in Scales :
        (MileageScaled(k) /\ BothInRange) =>
            \A g \in NonBaseline \cup {"A"} :
                /\ Close(absoluteDelta(call, g), FMul(k, absoluteDelta(prev, g)))
                /\ Close(percentDelta(call, g), percentDelta(prev, g))
                /\ IsPowerOfTwo(k) =>
                      /\ absoluteDelta(call, g) = FMul(k, absoluteDelta(prev, g))
                      /\ percentDelta(call, g) = percentDelta(prev, g)

\* The mileage of the default call was doubled.
C6_Witness ==
    \E k \in Scales :
        /\ IsPowerOfTwo(k)
        /\ MileageScaled(k)
        /\ BothInRange
        /\ prev.args = DefaultInputs
        /\ absoluteDelta(call, "B") = FMul(k, absoluteDelta(prev, "B"))
        /\ FLt(absoluteDelta(prev, "B"), absoluteDelta(call, "B"))

(***************************************************************************)
(* C7                                                                      *)
(***************************************************************************)
\* The grades of the lines written, in the order written.
RenderedGrades == [i \in 1..Len(rendered) |-> rendered[i].grade]

\* C7: both returned mappings have exactly the keys A, B, C, D, E, each once,
\* in that order, and a run of the page that called the function writes one
\* line per grade in that same order.
C7_GradeOrder ==
    ReturnedCall(call) =>
        /\ DictKeys(call.result.cost_differences) = Grades
        /\ DictKeys(call.result.percentage_increase) = Grades
        /\ called => RenderedGrades = Grades

\* The page wrote its lines for inputs other than the defaults.
C7_Witness ==
    /\ called
    /\ ReturnedCall(call)
    /\ ValidArgs(call.args)
    /\ call.args # DefaultInputs
    /\ Len(rendered) = Len(Grades)
    /\ rendered[Len(Grades)].grade = "E"

(***************************************************************************)
(* C9                                                                      *)
(***************************************************************************)
\* The reference algorithm, written from its statement.
RefRrc == [A |-> Lit(65, 10), B |-> Lit(72, 10), C |-> Lit(84, 10),
           D |-> Lit(98, 10), E |-> Lit(110, 10)]

RefLitresPer100kmAtOneMpg == Lit(28248, 100)

RefKmPerMile == Lit(160934, 100000)

RefCoefficient == Lit(15, 1000)

\* 0.015*(((rrc[g]-rrc[A])/rrc[A]*100)/10), for each grade.
RefFuelIncreasePct ==
    [g \in DOMAIN RefRrc |->
        FMul(RefCoefficient,
             FDiv(FMul(FDiv(FSub(RefRrc[g], RefRrc["A"]), RefRrc["A"]), FromInt(100)),
                  FromInt(10)))]

\* (consumption/100)*km*price
RefCost(consumption, km, price) == FMul(FMul(FDiv(consumption, FromInt(100)), km), price)

\* The deltas of grade g, the baseline's consumption and cost being given.
RefDeltas(baseConsumption, km, price, baseCost, g) ==
    LET gradeConsumption == FMul(baseConsumption, FAdd(FromInt(1), RefFuelIncreasePct[g]))
        delta == FSub(RefCost(gradeConsumption, km, price), baseCost)
    IN  [absoluteDelta |-> delta,
         percentDelta  |-> IF IsZero(baseCost) THEN NaN
                           ELSE FMul(FDiv(delta, baseCost), FromInt(100))]

RefEstimate(t) ==
    LET baseConsumption == FDiv(RefLitresPer100kmAtOneMpg, t.mpg)
        price == FDiv(t.price, FromInt(100))
        km == FMul(t.mileage, RefKmPerMile)
        baseCost == RefCost(baseConsumption, km, price)
    IN  [g \in NonBaseline |-> RefDeltas(baseConsumption, km, price, baseCost, g)]

\* The reference's deltas for each triple of valid arguments, computed once.
Reference == [t \in {u \in ArgTriples : ValidArgs(u)} |-> RefEstimate(t)]

\* C9: for every valid input and every grade B, C, D, E the returned
\* absoluteDelta and percentDelta are those of the reference algorithm, bit
\* for bit.
C9_MatchesReference ==
    ValidCall(call) =>
        /\ call.args \in DOMAIN Reference
        /\ \A g \in NonBaseline :
              /\ absoluteDelta(call, g) = Reference[call.args][g].absoluteDelta
              /\ percentDelta(call, g) = Reference[call.args][g].percentDelta

\* A call away from the defaults whose deltas are numbers.
C9_Witness ==
    /\ ValidCall(call)
    /\ call.args = Triple(Lit(523, 10), FromInt(7500), Lit(1459, 10))
    /\ IsNormal(absoluteDelta(call, "D"))
    /\ absoluteDelta(call, "D") = Reference[call.args]["D"].absoluteDelta

(***************************************************************************)
(* C10                                                                     *)
(***************************************************************************)
\* C10: with the values the form can supply, a call made by the page never
\* fails: its divisors, fuelEconomy and the baseline cost, are above zero and
\* it returns its mappings; and a run of the page calls the function only when
\* the button was pressed in it.
C10_FormNeverFails ==
    /\ called => pressed
    /\ called =>
          /\ call.args = widget
          /\ Positive(widget.mpg)
          /\ FLt(Zero(0), Frames[widget].base_fuel_cost)
          /\ call.result.outcome = "returned"
    /\ call # NoCall => call.result.outcome = "returned"

\* The button was pressed with the largest fuel economy and the smallest
\* mileage and price: the baseline cost is subnormal, and not zero.
C10_Witness ==
    /\ called
    /\ pressed
    /\ widget = Triple(MaxFloat, MinInputs.mileage, MinInputs.price)
    /\ call.result.outcome = "returned"
    /\ ~IsNormal(Frames[widget].base_fuel_cost)

=============================================================================
